---- MODULE Spec2Model ----
(***************************************************************************)
(* Model of the blob-triggered chunked inference pipeline                  *)
(* (function/function_app.py: process_blob and its helpers) and of the     *)
(* inference collaborator it posts to (api/app.py: predict).               *)
(*                                                                         *)
(* Text is modelled as a sequence of lines, a line as a sequence of        *)
(* tokens.  A token is one character of the file (a delimiter candidate,   *)
(* a blank, a tab, a digit) or one indivisible word ("id", "Text", "a").   *)
(* Quote characters are outside the token alphabet.                        *)
(***************************************************************************)
EXTENDS Integers, Sequences, FiniteSets, TLC

(***************************************************************************)
(* Bounds of the model (not program constants).                            *)
(***************************************************************************)
MaxLines == 3        \* data lines of a file in the parser specification
MaxRows == 3         \* data lines of a file in the pipeline specification
MaxFails == 3        \* transient failures a collaborator script starts with
MaxDeliveries == 2   \* deliveries of one triggering event
MaxChunk == 2        \* largest configured CHUNK_SIZE

(***************************************************************************)
(* Strings.                                                                *)
(***************************************************************************)
TAB == "\t"
BOM == "BOM"

Min(a, b) == IF a < b THEN a ELSE b

\* str.isspace() on one token
IsSpace(c) == c \in {" ", TAB}

\* str.lower(), one token at a time
LowerTok(c) ==
  CASE c = "ID" -> "id"
    [] c = "Text" -> "text"
    [] OTHER -> c

Lower(s) == [k \in 1..Len(s) |-> LowerTok(s[k])]

RECURSIVE LStrip(_)
LStrip(s) == IF s # <<>> /\ IsSpace(Head(s)) THEN LStrip(Tail(s)) ELSE s

RECURSIVE RStrip(_)
RStrip(s) ==
  IF s # <<>> /\ IsSpace(s[Len(s)]) THEN RStrip(SubSeq(s, 1, Len(s) - 1)) ELSE s

\* str.strip()
Strip(s) == RStrip(LStrip(s))

\* mutant: s.split(" "), the tab not taken as whitespace
RECURSIVE SplitWs_blank(_, _)
SplitWs_blank(s, cur) ==
  IF s = <<>> THEN (IF cur = <<>> THEN <<>> ELSE <<cur>>)
  ELSE IF Head(s) = " "
       THEN (IF cur = <<>> THEN <<>> ELSE <<cur>>) \o SplitWs_blank(Tail(s), <<>>)
       ELSE SplitWs_blank(Tail(s), Append(cur, Head(s)))

\* str.split(): the maximal runs of non-whitespace tokens, in order
RECURSIVE SplitWs(_, _)
SplitWs(s, cur) ==
  IF s = <<>> THEN (IF cur = <<>> THEN <<>> ELSE <<cur>>)
  ELSE IF IsSpace(Head(s))
       THEN (IF cur = <<>> THEN <<>> ELSE <<cur>>) \o SplitWs(Tail(s), <<>>)
       ELSE SplitWs(Tail(s), Append(cur, Head(s)))

\* " ".join(words)
RECURSIVE JoinSp(_)
JoinSp(words) ==
  IF words = <<>> THEN <<>>
  ELSE IF Len(words) = 1 THEN words[1]
  ELSE words[1] \o <<" ">> \o JoinSp(Tail(words))

\* mutant: s.strip() in place of " ".join(s.split())
Collapse_strip(s) == Strip(s)

\* " ".join(s.split())
Collapse(s) == JoinSp(SplitWs(s, <<>>))

\* text.lstrip(BOM) guarded by text.startswith(BOM): only the first line
\* can start with the mark
RECURSIVE LStripBom(_)
LStripBom(s) == IF s # <<>> /\ Head(s) = BOM THEN LStripBom(Tail(s)) ELSE s

StripBom(text) ==
  IF text # <<>> THEN <<LStripBom(text[1])>> \o Tail(text) ELSE text

\* str(n) for n >= 0: the decimal digits of n
Digit(d) ==
  CASE d = 0 -> "0" [] d = 1 -> "1" [] d = 2 -> "2" [] d = 3 -> "3"
    [] d = 4 -> "4" [] d = 5 -> "5" [] d = 6 -> "6" [] d = 7 -> "7"
    [] d = 8 -> "8" [] d = 9 -> "9"

RECURSIVE Str(_)
Str(n) == IF n < 10 THEN <<Digit(n)>> ELSE Append(Str(n \div 10), Digit(n % 10))

(***************************************************************************)
(* Delimiter detection and the csv reader.                                 *)
(***************************************************************************)
\* delimiters=[",", ";", "\t", "|"] handed to csv.Sniffer().sniff
Candidates == <<",", ";", TAB, "|">>

\* csv.Sniffer.preferred, consulted when several candidates qualify
Preferred == <<",", TAB, ";", " ", ":">>

SeqRange(s) == {s[k] : k \in 1..Len(s)}

\* the candidates that occur in the line (frequency > 0 on every sniffed
\* line; only the first line is sniffed)
Qualifying(line) == SeqRange(Candidates) \cap SeqRange(line)

FirstOf(order, set) ==
  order[CHOOSE k \in 1..Len(order) :
          /\ order[k] \in set
          /\ \A j \in 1..(k - 1) : order[j] \notin set]

\* first_line = text.splitlines(True)[0] if text else ""
FirstLine(text) == IF text # <<>> THEN text[1] ELSE <<>>

\* try: csv.Sniffer().sniff(first_line, ...).delimiter  except: ","
Sniff(line) ==
  LET q == Qualifying(line) IN
  IF q = {} THEN ","
  ELSE IF Cardinality(q) = 1 THEN CHOOSE c \in q : TRUE
  ELSE IF q \cap SeqRange(Preferred) # {} THEN FirstOf(Preferred, q)
  ELSE CHOOSE c \in q : TRUE

\* the fields of one line, split at every occurrence of the delimiter
RECURSIVE SplitOn(_, _, _)
SplitOn(line, d, cur) ==
  IF line = <<>> THEN <<cur>>
  ELSE IF Head(line) = d THEN <<cur>> \o SplitOn(Tail(line), d, <<>>)
  ELSE SplitOn(Tail(line), d, Append(cur, Head(line)))

\* csv.reader on one line: a blank line is the empty row []
CsvRow(line, d) == IF line = <<>> THEN <<>> ELSE SplitOn(line, d, <<>>)

\* mutant: the header taken as first_line.split(delim), [""] for no line
Fieldnames_split(text, d) ==
  IF text = <<>> THEN <<<<>>>> ELSE SplitOn(text[1], d, <<>>)

\* DictReader.fieldnames: the first row the reader yields, None (falsy, here
\* <<>>) when there is none
Fieldnames(text, d) == IF text = <<>> THEN <<>> ELSE CsvRow(text[1], d)

\* the rows DictReader iterates over: the rows of the lines after the
\* header line, blank rows skipped
RECURSIVE DataRows(_, _)
DataRows(lines, d) ==
  IF lines = <<>> THEN <<>>
  ELSE IF CsvRow(Head(lines), d) = <<>> THEN DataRows(Tail(lines), d)
  ELSE <<CsvRow(Head(lines), d)>> \o DataRows(Tail(lines), d)

(***************************************************************************)
(* Python values looked up in a row dictionary: None, a str, or the list   *)
(* of surplus fields DictReader stores under the key None.                 *)
(***************************************************************************)
PyNone == [tag |-> "none", s |-> <<>>]
PyStr(s) == [tag |-> "str", s |-> s]
PyList == [tag |-> "list", s |-> <<>>]

Truthy(v) == v.tag = "list" \/ (v.tag = "str" /\ v.s # <<>>)

\* a or b
PyOr(a, b) == IF Truthy(a) THEN a ELSE b

\* r.get(key) for the row dictionary DictReader builds from fieldnames fn and
\* row: dict(zip(fn, row)), then restkey None for a long row, restval None
\* for the fieldnames a short row leaves out
RowGet(fn, row, key) ==
  IF key.tag = "none"
  THEN (IF Len(fn) < Len(row) THEN PyList ELSE PyNone)
  ELSE LET at == {k \in 1..Len(fn) : fn[k] = key.s} IN
       IF at = {} THEN PyNone
       ELSE LET m == CHOOSE k \in at : \A j \in at : j <= k IN
            IF m <= Len(row) THEN PyStr(row[m]) ELSE PyNone

\* headers = [h.strip().lower() for h in reader.fieldnames]
Headers(fn) == [k \in 1..Len(fn) |-> Lower(Strip(fn[k]))]

In(name, headers) == \E k \in 1..Len(headers) : headers[k] = <<name>>

\* id_key = "id" if "id" in headers else ("tweet_id" if ... else None)
IdKey(headers) ==
  IF In("id", headers) THEN PyStr(<<"id">>)
  ELSE IF In("tweet_id", headers) THEN PyStr(<<"tweet_id">>)
  ELSE PyNone

\* text_key = "text" if "text" in headers else ("tweet" if ... else None)
TextKey(headers) ==
  IF In("text", headers) THEN PyStr(<<"text">>)
  ELSE IF In("tweet", headers) THEN PyStr(<<"tweet">>)
  ELSE PyNone

\* mutant: str(len(rows)) in place of str(len(rows)+1)
RowId_zero(fn, row, id_key, n) ==
  PyOr(IF Truthy(id_key) THEN RowGet(fn, row, id_key) ELSE PyNone,
       PyStr(Str(n)))

\* _id = (r.get(id_key) if id_key else None) or str(len(rows)+1)
RowId(fn, row, id_key, n) ==
  PyOr(IF Truthy(id_key) THEN RowGet(fn, row, id_key) ELSE PyNone,
       PyStr(Str(n + 1)))

\* _tx = r.get(text_key) or r.get("comment") or r.get("message") or ""
RowText(fn, row, text_key) ==
  PyOr(PyOr(PyOr(RowGet(fn, row, text_key),
                 RowGet(fn, row, PyStr(<<"comment">>))),
            RowGet(fn, row, PyStr(<<"message">>))),
       PyStr(<<>>))

\* mutant: the test "if _tx" left out
Accept_all(tx) == TRUE

\* if _tx:
Accept(tx) == tx # <<>>

\* the loop "for r in reader": rows accepted so far in acc.  A list has no
\* split(), so a list-valued _tx raises (ok = FALSE) and the run ends there.
RECURSIVE ParseRows(_, _, _, _, _)
ParseRows(fn, id_key, text_key, data, acc) ==
  IF data = <<>> THEN [ok |-> TRUE, rows |-> acc]
  ELSE LET r == Head(data)
           tx0 == RowText(fn, r, text_key)
       IN IF tx0.tag = "list" THEN [ok |-> FALSE, rows |-> acc]
          ELSE LET tx == Collapse(tx0.s)
                   id == RowId(fn, r, id_key, Len(acc))
               IN ParseRows(fn, id_key, text_key, Tail(data),
                            IF Accept(tx)
                            THEN Append(acc, [id |-> id.s, text |-> tx])
                            ELSE acc)

\* what the reader has left after its first line
Rest(text) == IF text = <<>> THEN <<>> ELSE Tail(text)

\* lines 31-62 of process_blob on the decoded text: "no_header", "raised",
\* or the row list
Parse(text0) ==
  LET text == StripBom(text0)
      delim == Sniff(FirstLine(text))
      fn == Fieldnames(text, delim)
      headers == Headers(fn)
      res == ParseRows(fn, IdKey(headers), TextKey(headers),
                       DataRows(Rest(text), delim), <<>>)
  IN IF fn = <<>> THEN [outcome |-> "no_header", rows |-> <<>>]
     ELSE IF ~res.ok THEN [outcome |-> "raised", rows |-> res.rows]
     ELSE [outcome |-> "rows", rows |-> res.rows]

(***************************************************************************)
(* Configuration and the retry-mounted session (module level, lines 11-18).*)
(***************************************************************************)
\* Retry(total=4, ...)
RetryTotal == 4

\* status_forcelist=(429,500,502,503,504)
StatusForcelist == {429, 500, 502, 503, 504}

\* Retry(...) is built without allowed_methods: urllib3's default set
AllowedMethods == {"HEAD", "GET", "PUT", "DELETE", "OPTIONS", "TRACE"}

\* session.mount("https://", ...): the prefix the retrying adapter serves
Mounted == {"https"}

\* session.post(...)
Method == "POST"

\* the Retry object of the adapter that serves a URL of this scheme; every
\* other scheme keeps the session's default adapter, Retry(0, read=False)
AdapterRetry(scheme) ==
  IF scheme \in Mounted
  THEN [total |-> RetryTotal, forcelist |-> StatusForcelist, read |-> TRUE]
  ELSE [total |-> 0, forcelist |-> {}, read |-> FALSE]

\* Retry._is_method_retryable
IsMethodRetryable(m) == m \in AllowedMethods

\* mutant: every error status is sent again, whatever the method
IsRetry_status(retry, m, status) == status >= 400

\* Retry.is_retry(method, status_code)
IsRetry(retry, m, status) == IsMethodRetryable(m) /\ status \in retry.forcelist

(***************************************************************************)
(* Responses of the inference endpoint to one call attempt.                *)
(***************************************************************************)
OkAligned == [net |-> "ok", status |-> 200, body |-> "aligned"]
OkEmpty == [net |-> "ok", status |-> 200, body |-> "empty_list"]
OkNull == [net |-> "ok", status |-> 200, body |-> "null"]
OkNotJson == [net |-> "ok", status |-> 200, body |-> "not_json"]
Status(code) == [net |-> "ok", status |-> code, body |-> "none"]
ConnectError == [net |-> "connect", status |-> 0, body |-> "none"]
ReadError == [net |-> "read", status |-> 0, body |-> "none"]

Finals ==
  {OkAligned, OkEmpty, OkNull, OkNotJson, Status(503), Status(404),
   ConnectError, ReadError}

Transients == {Status(503), ConnectError}

Rep(r, k) == [j \in 1..k |-> r]

\* what the endpoint answers to the successive attempts of one call: k times
\* a transient failure, then a final answer it keeps giving
Scripts == {Rep(t, k) \o <<f>> : t \in Transients, k \in 0..MaxFails, f \in Finals}

RespAt(scr, n) == scr[Min(n, Len(scr))]

\* api/app.py predict: one prediction per item, ids attached in order
Predict(items) ==
  [k \in 1..Len(items) |->
     [id |-> items[k].id, text |-> items[k].text, sentiment_label |-> "positive"]]

\* resp.json() of a 200 response
JsonList(items) == [json |-> "list", items |-> items]
JsonNull == [json |-> "null", items |-> <<>>]

Body(r, batch) ==
  CASE r.body = "aligned" -> JsonList(Predict(batch))
    [] r.body = "empty_list" -> JsonList(<<>>)
    [] OTHER -> JsonNull

NoExc == [type |-> "none", status |-> 0]
Exc(type, status) == [type |-> type, status |-> status]

\* One attempt of session.post + raise_for_status + json (lines 75-77), the
\* n-th of this call, answered by r: "retry" when the adapter sends again,
\* otherwise the predictions or the exception that reaches the except clause
AttemptResult(scheme, r, n, batch) ==
  LET retry == AdapterRetry(scheme) IN
  CASE r.net = "connect" ->
         IF n > retry.total
         THEN [next |-> "raise", exc |-> Exc("ConnectionError", 0), preds |-> JsonNull]
         ELSE [next |-> "retry", exc |-> NoExc, preds |-> JsonNull]
    [] r.net = "read" ->
         IF ~retry.read \/ ~IsMethodRetryable(Method) \/ n > retry.total
         THEN [next |-> "raise", exc |-> Exc("ReadTimeout", 0), preds |-> JsonNull]
         ELSE [next |-> "retry", exc |-> NoExc, preds |-> JsonNull]
    [] OTHER ->
         IF IsRetry(retry, Method, r.status)
         THEN (IF n > retry.total
               THEN [next |-> "raise", exc |-> Exc("RetryError", r.status), preds |-> JsonNull]
               ELSE [next |-> "retry", exc |-> NoExc, preds |-> JsonNull])
         ELSE IF r.status >= 400
         THEN [next |-> "raise", exc |-> Exc("HTTPError", r.status), preds |-> JsonNull]
         ELSE IF r.body = "not_json"
         THEN [next |-> "raise", exc |-> Exc("JSONDecodeError", r.status), preds |-> JsonNull]
         ELSE [next |-> "return", exc |-> NoExc, preds |-> Body(r, batch)]

(***************************************************************************)
(* Output names and documents.                                             *)
(***************************************************************************)
\* input_path_name.split("/")[-1]; a path is its sequence of segments
BaseName(path) == path[Len(path)]

\* f"{chunk_idx:04d}": at least four digits, zero padded
Pad4(n) == LET d == Str(n) IN
  IF Len(d) >= 4 THEN d ELSE [k \in 1..(4 - Len(d)) |-> "0"] \o d

\* mutant: the index left out of the blob name
_chunk_blob_name_flat(path, idx) == <<BaseName(path), ".", "json">>

_chunk_blob_name(path, idx) == <<BaseName(path), ".">> \o Pad4(idx) \o <<".", "json">>

_manifest_blob_name(path) == <<BaseName(path), ".", "manifest", ".", "json">>

\* mutant: an existing blob is appended to instead of overwritten
_upload_json_append(st, key, doc) ==
  [k \in (DOMAIN st) \cup {key} |->
     IF k # key THEN st[k]
     ELSE IF key \in DOMAIN st THEN [first |-> st[key], then |-> doc]
     ELSE doc]

\* container_client.upload_blob(name=..., data=..., overwrite=True)
_upload_json(st, key, doc) ==
  [k \in (DOMAIN st) \cup {key} |-> IF k = key THEN doc ELSE st[k]]

NoHeaderDoc == [error |-> <<"no_header">>]
NoValidRowsDoc == [input_rows |-> 0, predictions |-> <<>>, note |-> "no_valid_rows"]

ErrDoc(exc, idx, t) ==
  [error |-> [prefix |-> "api_call_failed: ", exc |-> exc], chunk_index |-> idx, at |-> t]

OutDoc(idx, batch, preds, t) ==
  [chunk_index |-> idx, chunk_size |-> Len(batch), predictions |-> preds,
   processed_at |-> t]

\* mutant: total_predictions reports the rows, not the predictions
ManifestDoc_rows(path, nrows, nchunks, npreds, t) ==
  [file |-> path, total_rows |-> nrows, total_chunks |-> nchunks,
   total_predictions |-> nrows, completed_at |-> t]

ManifestDoc(path, nrows, nchunks, npreds, t) ==
  [file |-> path, total_rows |-> nrows, total_chunks |-> nchunks,
   total_predictions |-> npreds, completed_at |-> t]

IsFailureDoc(d) == DOMAIN d = {"error", "chunk_index", "at"}
IsSuccessDoc(d) == DOMAIN d = {"chunk_index", "chunk_size", "predictions", "processed_at"}
IsManifestDoc(d) ==
  DOMAIN d = {"file", "total_rows", "total_chunks", "total_predictions", "completed_at"}

(***************************************************************************)
(* Inputs.                                                                 *)
(***************************************************************************)
SeqsUpTo(S, n) == UNION {[1..k -> S] : k \in 0..n}

\* trigger paths "input/{name}"
Names == {<<"input", "f.csv">>}

\* files of the pipeline specification: zero bytes, one blank line, or a
\* header naming only a text column, followed by data lines with a usable or
\* a blank text
PipelineLines == {<<"a">>, <<" ">>}
PipelineTexts == {<<>>, <<<<>>>>} \cup {<<<<"text">>>> \o ls : ls \in SeqsUpTo(PipelineLines, MaxRows)}

\* CHUNK_SIZE = int(os.getenv("CHUNK_SIZE", "100")): any integer
ChunkSizes == (-1)..MaxChunk
Schemes == {"https", "http"}

(***************************************************************************)
(* State.                                                                  *)
(***************************************************************************)
VARIABLES
  api_scheme,   \* scheme of API_URL (line 11)
  CHUNK_SIZE,   \* line 12
  pc,           \* position of the invocation of process_blob
  name,         \* inputblob.name
  input,        \* decoded content of the input blob
  rows,         \* line 56
  i,            \* loop variable of line 71
  chunk_idx,    \* line 69
  total_preds,  \* line 70
  script,       \* answers of the endpoint to the attempts of the current call
  attempts,     \* attempts the adapter has made for the current call
  result,       \* what the try block of the current batch ended with
  store,        \* the output container: blob name -> document
  clock,        \* the last reading of the wall clock
  log,          \* history: calls started and blobs uploaded by this invocation
  outcomes,     \* history: the deciding answer of each batch of this invocation
  replay,       \* outcomes of the previous delivery of the same event
  prev,         \* store, and position reached, when the previous delivery ended
  deliveries,   \* invocations triggered for the blob name so far
  delim,        \* line 40 / 42: the delimiter handed to the reader
  runs,         \* concurrent invocations: the locals of each
  wrote         \* history: blob name -> the invocations that uploaded it

vars ==
  <<api_scheme, CHUNK_SIZE, pc, name, input, rows, i, chunk_idx, total_preds,
    script, attempts, result, store, clock, log, outcomes, replay, prev,
    deliveries, delim, runs, wrote>>

cfg == <<api_scheme, CHUNK_SIZE>>
run == <<rows, i, chunk_idx, total_preds>>
call == <<script, attempts, result>>
hist == <<replay, prev, deliveries>>
pair == <<runs, wrote>>

NoResult == [next |-> "none", exc |-> NoExc, preds |-> JsonNull]
NoPrev == [pc |-> "none", store |-> <<>>]

PostEv(idx, batch) == [ev |-> "post", idx |-> idx, key |-> <<>>, items |-> batch]
PutEv(key) == [ev |-> "put", idx |-> -1, key |-> key, items |-> <<>>]

\* dt.datetime.utcnow(): a reading later than the last one
_now(last) == last + 1

\* rows[i:i+CHUNK_SIZE] for 0 <= i < len(rows) and CHUNK_SIZE > 0
Slice(rs, from, size) == SubSeq(rs, from + 1, Min(from + size, Len(rs)))

\* mutant: the loop stops before a trailing partial batch
InRange_floor(n, len, step) == step > 0 /\ n + step <= len

\* range(0, len(rows), CHUNK_SIZE) still yields the value i (a negative
\* step from 0 yields nothing; a zero step raises before the first value)
InRange(n, len, step) == step > 0 /\ n < len

\* mutant: chunk_idx is not advanced
IncIdx_stuck(idx) == idx

\* chunk_idx += 1
IncIdx(idx) == idx + 1

\* len(preds): a list has a length, None has not (TypeError)
HasLen(preds) == preds.json = "list"

Init ==
  /\ api_scheme \in Schemes
  /\ CHUNK_SIZE \in ChunkSizes
  /\ pc = "idle"
  /\ name = <<>>
  /\ input = <<>>
  /\ rows = <<>>
  /\ i = 0
  /\ chunk_idx = 0
  /\ total_preds = 0
  /\ script = <<>>
  /\ attempts = 0
  /\ result = NoResult
  /\ store = <<>>
  /\ clock = 0
  /\ log = <<>>
  /\ outcomes = <<>>
  /\ replay = <<>>
  /\ prev = NoPrev
  /\ deliveries = 0
  /\ delim = ""
  /\ runs = <<>>
  /\ wrote = <<>>

(***************************************************************************)
(* The blob trigger delivers a new input blob (lines 20-24, 31-32).        *)
(***************************************************************************)
Trigger ==
  /\ pc = "idle"
  /\ name' \in Names
  /\ input' \in PipelineTexts
  /\ pc' = "start"
  /\ deliveries' = 1
  /\ UNCHANGED <<cfg, run, call, store, clock, log, outcomes, replay, prev,
                 delim, pair>>

(***************************************************************************)
(* Lines 33-69: parse the blob; report a missing header or the absence of  *)
(* usable rows under the manifest name and return, or enter the loop.      *)
(***************************************************************************)
ParseBlob ==
  /\ pc = "start"
  /\ delim' = Sniff(FirstLine(StripBom(input)))
  /\ LET p == Parse(input) IN
     CASE p.outcome = "no_header" ->
            /\ store' = _upload_json(store, _manifest_blob_name(name), NoHeaderDoc)
            /\ log' = Append(log, PutEv(_manifest_blob_name(name)))
            /\ pc' = "done"
            /\ UNCHANGED run
       [] p.outcome = "raised" ->
            /\ pc' = "raised"
            /\ UNCHANGED <<run, store, log>>
       [] p.outcome = "rows" /\ p.rows = <<>> ->
            /\ store' = _upload_json(store, _manifest_blob_name(name), NoValidRowsDoc)
            /\ log' = Append(log, PutEv(_manifest_blob_name(name)))
            /\ pc' = "done"
            /\ UNCHANGED run
       [] OTHER ->
            /\ rows' = p.rows
            /\ chunk_idx' = 0
            /\ total_preds' = 0
            /\ i' = 0
            /\ pc' = IF CHUNK_SIZE = 0 THEN "raised" ELSE "loop"
            /\ UNCHANGED <<store, log>>
  /\ UNCHANGED <<cfg, name, input, call, clock, outcomes, hist, pair>>

(***************************************************************************)
(* Lines 71-75: the loop takes the next batch and posts it.  On a          *)
(* redelivery the endpoint answers each batch as it did before.            *)
(***************************************************************************)
PostBatch ==
  /\ pc = "loop"
  /\ InRange(i, Len(rows), CHUNK_SIZE)
  /\ script' \in Scripts
  /\ chunk_idx + 1 <= Len(replay) => script' = <<replay[chunk_idx + 1]>>
  /\ attempts' = 0
  /\ result' = NoResult
  /\ log' = Append(log, PostEv(chunk_idx, Slice(rows, i, CHUNK_SIZE)))
  /\ pc' = "post"
  /\ UNCHANGED <<cfg, name, input, run, store, clock, outcomes, hist, delim, pair>>

(***************************************************************************)
(* Lines 75-78: one attempt of the adapter; it sends again, or the try     *)
(* block ends with predictions or with an exception.                       *)
(***************************************************************************)
Attempt ==
  /\ pc = "post"
  /\ LET n == attempts + 1
         r == RespAt(script, n)
         a == AttemptResult(api_scheme, r, n, Slice(rows, i, CHUNK_SIZE))
     IN /\ attempts' = n
        /\ IF a.next = "retry"
           THEN UNCHANGED <<pc, result, outcomes>>
           ELSE /\ result' = a
                /\ outcomes' = Append(outcomes, r)
                /\ pc' = "got"
  /\ UNCHANGED <<cfg, name, input, run, script, store, clock, log, hist, delim,
                 pair>>

(***************************************************************************)
(* Lines 78-96: upload the failure or the success document of the batch    *)
(* and go on with the next batch; len(preds) raises for a body without a   *)
(* length, after the upload.                                               *)
(***************************************************************************)
WriteChunk ==
  /\ pc = "got"
  /\ LET key == _chunk_blob_name(name, chunk_idx)
         batch == Slice(rows, i, CHUNK_SIZE)
         t == _now(clock)
     IN   /\ clock' = t
          /\ log' = Append(log, PutEv(key))
          /\ IF result.next = "raise"
             THEN /\ store' = _upload_json(store, key, ErrDoc(result.exc, chunk_idx, t))
                  /\ chunk_idx' = IncIdx(chunk_idx)
                  /\ i' = i + CHUNK_SIZE
                  /\ pc' = "loop"
                  /\ UNCHANGED total_preds
             ELSE /\ store' = _upload_json(store, key, OutDoc(chunk_idx, batch, result.preds, t))
                  /\ IF HasLen(result.preds)
                     THEN /\ total_preds' = total_preds + Len(result.preds.items)
                          /\ chunk_idx' = IncIdx(chunk_idx)
                          /\ i' = i + CHUNK_SIZE
                          /\ pc' = "loop"
                     ELSE /\ pc' = "raised"
                          /\ UNCHANGED <<total_preds, chunk_idx, i>>
  /\ script' = <<>>
  /\ attempts' = 0
  /\ result' = NoResult
  /\ UNCHANGED <<cfg, name, input, rows, outcomes, hist, delim, pair>>

(***************************************************************************)
(* Lines 98-107: after the loop, upload the manifest.                      *)
(***************************************************************************)
WriteManifest ==
  /\ pc = "loop"
  /\ ~InRange(i, Len(rows), CHUNK_SIZE)
  /\ clock' = _now(clock)
  /\ store' = _upload_json(store, _manifest_blob_name(name),
                           ManifestDoc(name, Len(rows), chunk_idx, total_preds,
                                       _now(clock)))
  /\ log' = Append(log, PutEv(_manifest_blob_name(name)))
  /\ pc' = "done"
  /\ UNCHANGED <<cfg, name, input, run, call, outcomes, hist, delim, pair>>

(***************************************************************************)
(* The trigger source delivers the same event again (same name, same       *)
(* bytes) after the previous invocation returned or raised.                *)
(***************************************************************************)
Redeliver ==
  /\ pc \in {"done", "raised"}
  /\ deliveries < MaxDeliveries
  /\ deliveries' = deliveries + 1
  /\ replay' = outcomes
  /\ prev' = [pc |-> pc, store |-> store]
  /\ pc' = "start"
  /\ rows' = <<>>
  /\ i' = 0
  /\ chunk_idx' = 0
  /\ total_preds' = 0
  /\ log' = <<>>
  /\ outcomes' = <<>>
  /\ delim' = ""
  /\ UNCHANGED <<cfg, name, input, call, store, clock, pair>>

Next ==
  \/ Trigger
  \/ ParseBlob
  \/ PostBatch
  \/ Attempt
  \/ WriteChunk
  \/ WriteManifest
  \/ Redeliver

Spec == Init /\ [][Next]_vars

TypeOK ==
  /\ pc \in {"idle", "start", "loop", "post", "got", "done", "raised", "pair"}
  /\ chunk_idx \in 0..(MaxRows + 1)
  /\ clock \in Nat
  /\ attempts \in 0..(RetryTotal + 1)

(***************************************************************************)
(* The parser alone: every file made of a header line and up to MaxLines   *)
(* data lines, handed to the parsing part of process_blob.                 *)
(***************************************************************************)
HeaderLines ==
  { <<>>,
    <<"id", ",", "text">>,
    <<"id", ";", "text">>,
    <<"id", TAB, "text">>,
    <<"id", "|", "text">>,
    <<BOM, "id", ",", "text">>,
    <<"text">>,
    <<"text", ",", "x">>,
    <<"tweet_id", ",", "tweet">>,
    <<"ID", ",", " ", "Text">>,
    <<"comment">>,
    <<"id", ";", "text", TAB, "x">>,
    <<"id", ",", "text", ",", "comment">> }

DataLines ==
  { <<"7", ",", "a">>,
    <<"8", ",", " ", "a", " ", TAB, "b", " ">>,
    <<"9", ",", " ">>,
    <<",", "b">>,
    <<"7">>,
    <<"8", ",", ",", "b">>,
    <<>>,
    <<"7", ";", "a", TAB, "b">>,
    <<"8", TAB, "b">>,
    <<"9", "|", "a">> }

ParseTexts ==
  {<<>>} \cup {<<h>> \o ls : h \in HeaderLines, ls \in SeqsUpTo(DataLines, MaxLines)}

InitParse ==
  /\ api_scheme = "https"
  /\ CHUNK_SIZE = MaxChunk
  /\ pc = "start"
  /\ name \in Names
  /\ input \in ParseTexts
  /\ rows = <<>>
  /\ i = 0
  /\ chunk_idx = 0
  /\ total_preds = 0
  /\ script = <<>>
  /\ attempts = 0
  /\ result = NoResult
  /\ store = <<>>
  /\ clock = 0
  /\ log = <<>>
  /\ outcomes = <<>>
  /\ replay = <<>>
  /\ prev = NoPrev
  /\ deliveries = 1
  /\ delim = ""
  /\ runs = <<>>
  /\ wrote = <<>>

NextParse == ParseBlob

SpecParse == InitParse /\ [][NextParse]_vars

(***************************************************************************)
(* Two invocations of process_blob that the platform runs at the same time *)
(* for two different blobs.  Each invocation has its own locals; the       *)
(* output container and the wall clock are shared.  One step of an         *)
(* invocation runs up to and including its next upload.                    *)
(***************************************************************************)
RunIds == {1, 2}

\* trigger paths "input/{name}": {name} binds the whole blob name, which may
\* contain "/" itself
PairNames ==
  {<<"input", "f.csv">>, <<"input", "g.csv">>, <<"input", "a", "f.csv">>}

\* files of at most one data line
PairTexts == {t \in PipelineTexts : Len(t) <= 2}

\* answers of the endpoint that end the call at its first attempt
Answers == {OkAligned, Status(404)}

\* the locals of an invocation that has read its blob
Locals(path, text) ==
  [pc |-> "start", name |-> path, input |-> text, rows |-> <<>>, i |-> 0,
   chunk_idx |-> 0, total_preds |-> 0]

\* invocation r has uploaded under key
Note(w, key, r) ==
  [k \in (DOMAIN w) \cup {key} |->
     IF k # key THEN w[k]
     ELSE IF key \in DOMAIN w THEN w[key] \cup {r} ELSE {r}]

InitPair ==
  /\ api_scheme \in Schemes
  /\ CHUNK_SIZE \in ChunkSizes
  /\ pc = "pair"
  /\ name = <<>>
  /\ input = <<>>
  /\ rows = <<>>
  /\ i = 0
  /\ chunk_idx = 0
  /\ total_preds = 0
  /\ script = <<>>
  /\ attempts = 0
  /\ result = NoResult
  /\ store = <<>>
  /\ clock = 0
  /\ log = <<>>
  /\ outcomes = <<>>
  /\ replay = <<>>
  /\ prev = NoPrev
  /\ deliveries = 0
  /\ delim = ""
  /\ runs \in {f \in [RunIds -> {Locals(p, t) : p \in PairNames, t \in PairTexts}] :
                 f[1].name # f[2].name}
  /\ wrote = <<>>

single == <<cfg, pc, name, input, run, call, log, outcomes, hist, delim>>

\* lines 33-69 in invocation r
PairParse(r) ==
  /\ runs[r].pc = "start"
  /\ LET me == runs[r]
         p == Parse(me.input)
         mkey == _manifest_blob_name(me.name)
     IN CASE p.outcome = "no_header" ->
               /\ store' = _upload_json(store, mkey, NoHeaderDoc)
               /\ wrote' = Note(wrote, mkey, r)
               /\ runs' = [runs EXCEPT ![r].pc = "done"]
          [] p.outcome = "raised" ->
               /\ runs' = [runs EXCEPT ![r].pc = "raised"]
               /\ UNCHANGED <<store, wrote>>
          [] p.outcome = "rows" /\ p.rows = <<>> ->
               /\ store' = _upload_json(store, mkey, NoValidRowsDoc)
               /\ wrote' = Note(wrote, mkey, r)
               /\ runs' = [runs EXCEPT ![r].pc = "done"]
          [] OTHER ->
               /\ runs' = [runs EXCEPT ![r].rows = p.rows,
                                       ![r].pc = IF CHUNK_SIZE = 0 THEN "raised"
                                                 ELSE "loop"]
               /\ UNCHANGED <<store, wrote>>
  /\ UNCHANGED <<single, clock>>

\* lines 71-96 in invocation r: one batch, posted, answered and uploaded
PairChunk(r) ==
  /\ runs[r].pc = "loop"
  /\ InRange(runs[r].i, Len(runs[r].rows), CHUNK_SIZE)
  /\ \E ans \in Answers :
       LET me == runs[r]
           batch == Slice(me.rows, me.i, CHUNK_SIZE)
           a == AttemptResult(api_scheme, ans, 1, batch)
           key == _chunk_blob_name(me.name, me.chunk_idx)
           t == _now(clock)
       IN /\ clock' = t
          /\ wrote' = Note(wrote, key, r)
          /\ IF a.next = "raise"
             THEN /\ store' = _upload_json(store, key, ErrDoc(a.exc, me.chunk_idx, t))
                  /\ runs' = [runs EXCEPT ![r].chunk_idx = IncIdx(@),
                                          ![r].i = @ + CHUNK_SIZE]
             ELSE /\ store' = _upload_json(store, key,
                                           OutDoc(me.chunk_idx, batch, a.preds, t))
                  /\ runs' = IF HasLen(a.preds)
                             THEN [runs EXCEPT ![r].total_preds = @ + Len(a.preds.items),
                                               ![r].chunk_idx = IncIdx(@),
                                               ![r].i = @ + CHUNK_SIZE]
                             ELSE [runs EXCEPT ![r].pc = "raised"]
  /\ UNCHANGED single

\* lines 98-107 in invocation r
PairManifest(r) ==
  /\ runs[r].pc = "loop"
  /\ ~InRange(runs[r].i, Len(runs[r].rows), CHUNK_SIZE)
  /\ LET me == runs[r]
         mkey == _manifest_blob_name(me.name)
     IN /\ clock' = _now(clock)
        /\ store' = _upload_json(store, mkey,
                                 ManifestDoc(me.name, Len(me.rows), me.chunk_idx,
                                             me.total_preds, _now(clock)))
        /\ wrote' = Note(wrote, mkey, r)
        /\ runs' = [runs EXCEPT ![r].pc = "done"]
  /\ UNCHANGED single

NextPair == \E r \in RunIds : PairParse(r) \/ PairChunk(r) \/ PairManifest(r)

SpecPair == InitPair /\ [][NextPair]_vars

(***************************************************************************)
(* One blob name uploaded again and again with new content: each upload    *)
(* triggers an invocation once the previous one has ended.  The endpoint   *)
(* ends every call at its first attempt.                                   *)
(***************************************************************************)
\* files with the header id,text: zero bytes, one blank line, or the header
\* followed by data lines with an empty id and a padded text, or with an id
\* and a blank text
RerunLines == {<<",", " ", "a", TAB, " ", "b", " ">>, <<"7", ",", " ">>}
RerunTexts ==
  {<<>>, <<<<>>>>} \cup
  {<<<<"id", ",", "text">>>> \o ls : ls \in SeqsUpTo(RerunLines, MaxRows)}

\* the blob is uploaded, for the first time or over its previous content,
\* and the trigger fires for it (lines 20-24, 31-32)
Upload ==
  /\ pc \in {"idle", "done", "raised"}
  /\ deliveries < MaxDeliveries
  /\ deliveries' = deliveries + 1
  /\ name' \in Names
  /\ input' \in RerunTexts
  /\ replay' = <<>>
  /\ prev' = NoPrev
  /\ pc' = "start"
  /\ rows' = <<>>
  /\ i' = 0
  /\ chunk_idx' = 0
  /\ total_preds' = 0
  /\ log' = <<>>
  /\ outcomes' = <<>>
  /\ delim' = ""
  /\ UNCHANGED <<cfg, call, store, clock, pair>>

\* lines 71-75 with an endpoint that answers at once
PostBatchOnce ==
  /\ pc = "loop"
  /\ InRange(i, Len(rows), CHUNK_SIZE)
  /\ script' \in {<<a>> : a \in Answers}
  /\ attempts' = 0
  /\ result' = NoResult
  /\ log' = Append(log, PostEv(chunk_idx, Slice(rows, i, CHUNK_SIZE)))
  /\ pc' = "post"
  /\ UNCHANGED <<cfg, name, input, run, store, clock, outcomes, hist, delim, pair>>

NextRerun ==
  \/ Upload
  \/ ParseBlob
  \/ PostBatchOnce
  \/ Attempt
  \/ WriteChunk
  \/ WriteManifest

\* the scheme of the endpoint makes no difference to a call that ends at its
\* first attempt
InitRerun == Init /\ api_scheme = "https"

SpecRerun == InitRerun /\ [][NextRerun]_vars

(***************************************************************************)
(* Vocabulary of the properties.                                           *)
(***************************************************************************)
Ceil(n, b) == (n + b - 1) \div b

\* batches the loop of line 71 goes through
NBatches == IF CHUNK_SIZE > 0 THEN Ceil(Len(rows), CHUNK_SIZE) ELSE 0

IsPost(e) == e.ev = "post"
Posts == SelectSeq(log, IsPost)

ManifestKey == <<BaseName(name), ".", "manifest", ".", "json">>
IsChunkPut(e) == e.ev = "put" /\ e.key # ManifestKey

\* the blob name of batch k, for k < 10
ChunkKey(k) == <<BaseName(name), ".", "0", "0", "0", Digit(k), ".", "json">>

RECURSIVE Concat(_)
Concat(batches) ==
  IF batches = <<>> THEN <<>> ELSE Head(batches).items \o Concat(Tail(batches))

\* the endpoint's deciding answer is a failure of the call / a prediction list
IsFailure(r) == r.net # "ok" \/ r.status >= 400 \/ r.body = "not_json"
IsSuccess(r) == r.net = "ok" /\ r.status = 200 /\ r.body \in {"aligned", "empty_list"}

\* rows of batch j (0-based) and predictions its answer carries
SizeOf(j) == Min(CHUNK_SIZE, Len(rows) - j * CHUNK_SIZE)
CountOf(j) == IF outcomes[j + 1].body = "aligned" THEN SizeOf(j) ELSE 0

RECURSIVE SumSuccess(_)
SumSuccess(n) ==
  IF n = 0 THEN 0
  ELSE SumSuccess(n - 1) + (IF IsSuccess(outcomes[n]) THEN CountOf(n - 1) ELSE 0)

Ended == pc \in {"done", "raised"}

\* C1: a completed dispatching run has one artifact per batch, a Failure
\* document with a reason for every batch whose call failed and a Success
\* document for every other batch, and a manifest with total_chunks = number
\* of batches and total_predictions = predictions of the successful batches
\* only; neither a failed call nor a call answered with a prediction list
\* ends the run before its last batch.
C1_PartialFailure ==
  /\ (pc = "done" /\ rows # <<>>) =>
       /\ Len(outcomes) = NBatches
       /\ \A j \in 0..(NBatches - 1) :
            /\ ChunkKey(j) \in DOMAIN store
            /\ IsFailure(outcomes[j + 1]) \/ IsSuccess(outcomes[j + 1])
            /\ IsFailure(outcomes[j + 1]) =>
                 /\ IsFailureDoc(store[ChunkKey(j)])
                 /\ store[ChunkKey(j)].error.exc.type # "none"
                 /\ store[ChunkKey(j)].chunk_index = j
            /\ IsSuccess(outcomes[j + 1]) =>
                 /\ IsSuccessDoc(store[ChunkKey(j)])
                 /\ store[ChunkKey(j)].chunk_index = j
                 /\ Len(store[ChunkKey(j)].predictions.items) = CountOf(j)
       /\ ManifestKey \in DOMAIN store
       /\ IsManifestDoc(store[ManifestKey])
       /\ store[ManifestKey].total_chunks = NBatches
       /\ store[ManifestKey].total_predictions = SumSuccess(NBatches)
  /\ (pc = "raised" /\ outcomes # <<>>) =>
       /\ ~IsFailure(outcomes[Len(outcomes)])
       /\ ~IsSuccess(outcomes[Len(outcomes)])

\* C1 witness: three batches, the middle one failed, the manifest counts the
\* two predictions of the others
C1_Witness ==
  /\ pc = "done"
  /\ Len(outcomes) = 3
  /\ outcomes[1] = OkAligned
  /\ IsFailure(outcomes[2])
  /\ outcomes[3] = OkAligned
  /\ IsFailureDoc(store[ChunkKey(1)])
  /\ IsSuccessDoc(store[ChunkKey(2)])
  /\ store[ManifestKey].total_chunks = 3
  /\ store[ManifestKey].total_predictions = 2

\* C2: a call answered 503 on its first three attempts and 200 on the fourth
\* ends as a Success outcome; a call that fails on all of its first four
\* attempts ends as a Failure outcome.
C2_RetryPolicy ==
  pc = "got" =>
    /\ script = <<Status(503), Status(503), Status(503), OkAligned>>
         => result.next = "return"
    /\ (\A k \in 1..RetryTotal : IsFailure(RespAt(script, k)))
         => result.next = "raise"

\* C3: for a positive batch size the batches posted so far are the leading
\* slices of the row list, each of 1..b rows and all but the last of exactly
\* b rows, and a completed run has posted ceil(n/b) batches whose
\* concatenation is the row list.
C3_Chunking ==
  (CHUNK_SIZE > 0 /\ pc # "idle" /\ pc # "start") =>
    /\ Len(Posts) <= Ceil(Len(rows), CHUNK_SIZE)
    /\ \A j \in 1..Len(Posts) :
         /\ Len(Posts[j].items) >= 1
         /\ Len(Posts[j].items) <= CHUNK_SIZE
         /\ j < Ceil(Len(rows), CHUNK_SIZE) => Len(Posts[j].items) = CHUNK_SIZE
    /\ Concat(Posts) = SubSeq(rows, 1, Len(Concat(Posts)))
    /\ pc = "done" =>
         /\ Len(Posts) = Ceil(Len(rows), CHUNK_SIZE)
         /\ Concat(Posts) = rows

\* C3 witness: three rows in batches of two, the last batch of one row
C3_Witness ==
  /\ pc = "done"
  /\ CHUNK_SIZE = 2
  /\ Len(rows) = 3
  /\ Len(Posts) = 2
  /\ Len(Posts[2].items) = 1
  /\ Posts[2].items[1] = rows[3]

\* the document without the time stamp the run puts into it
TimeFields == {"at", "processed_at", "completed_at"}
Untimed(d) == [f \in (DOMAIN d) \ TimeFields |-> d[f]]

\* both deliveries of the event ended the same way on the same answers
SameRunTwice ==
  /\ deliveries = 2
  /\ Ended
  /\ prev.pc = pc
  /\ outcomes = replay

\* C4 (as stated): after the second of two runs on the same bytes, the same
\* blob name and the same answers, the output container holds the same keys
\* and byte-identical content as after the first run.
C4_ByteIdentical == SameRunTwice => store = prev.store

\* C4 (amended): after the second of two runs on the same bytes, the same
\* blob name and the same answers, the output container holds the same keys
\* as after the first run and, under each key, the same document except for
\* the time stamp field written by the run.
C4_IdempotentOverwrite ==
  SameRunTwice =>
    /\ DOMAIN store = DOMAIN prev.store
    /\ \A k \in DOMAIN store : Untimed(store[k]) = Untimed(prev.store[k])

\* C4 witness: a second run of three batches, one of them failed, has
\* overwritten the artifacts with later time stamps
C4_Witness ==
  /\ SameRunTwice
  /\ pc = "done"
  /\ Len(outcomes) = 3
  /\ IsFailure(outcomes[2])
  /\ IsSuccess(outcomes[3])
  /\ Cardinality(DOMAIN store) = 4
  /\ store[ChunkKey(2)].processed_at > prev.store[ChunkKey(2)].processed_at

\* the blob has no header line: zero bytes, or a blank first line
NoHeaderLine(text) == StripBom(text) = <<>> \/ StripBom(text)[1] = <<>>

\* C5: a run on an input without header line ends having uploaded exactly
\* one blob, the no_header document under the manifest name, and having made
\* no inference call.
C5_EmptyInput ==
  (NoHeaderLine(input) /\ pc # "idle" /\ pc # "start") =>
    /\ pc = "done"
    /\ log = <<PutEv(ManifestKey)>>
    /\ store[ManifestKey] = NoHeaderDoc

\* C5 witness: the run on zero bytes has ended
C5_Witness ==
  /\ pc = "done"
  /\ input = <<>>
  /\ Len(log) = 1
  /\ DOMAIN store = {ManifestKey}
  /\ store[ManifestKey].error = <<"no_header">>

\* the header parses and the text of every data row is empty once collapsed
EveryTextBlank(text) ==
  LET t == StripBom(text)
      d == Sniff(FirstLine(t))
      fn == Fieldnames(t, d)
      data == DataRows(Tail(t), d)
  IN /\ fn # <<>>
     /\ \A k \in 1..Len(data) :
          LET v == RowText(fn, data[k], TextKey(Headers(fn))) IN
          v.tag = "str" /\ Collapse(v.s) = <<>>

\* C6: a run on an input whose header parses and whose every row has an empty
\* or whitespace-only text ends having uploaded exactly one blob, the
\* no_valid_rows document under the manifest name (neither the no_header
\* document nor a manifest with totals), and having made no inference call.
C6_EmptyResult ==
  (EveryTextBlank(input) /\ pc # "idle" /\ pc # "start") =>
    /\ pc = "done"
    /\ log = <<PutEv(ManifestKey)>>
    /\ store[ManifestKey] = NoValidRowsDoc
    /\ "error" \notin DOMAIN store[ManifestKey]
    /\ ~IsManifestDoc(store[ManifestKey])
    /\ store[ManifestKey].note = "no_valid_rows"

\* C6 witness: the run on a header and two whitespace-only rows has ended
C6_Witness ==
  /\ pc = "done"
  /\ input = <<<<"text">>, <<" ">>, <<" ">>>>
  /\ Len(log) = 1
  /\ store[ManifestKey].note = "no_valid_rows"

\* C9: the log of a run alternates "post batch k" and "upload the artifact of
\* batch k" for k = 0, 1, 2, ... (so at most one call is open, it is closed
\* by the upload of its own artifact before the next call starts, and the
\* artifacts are uploaded in increasing index order), and the manifest is
\* uploaded last, after the artifact of the last batch.
C9_Sequential ==
  /\ \A p \in 1..Len(log) :
       IF IsPost(log[p])
       THEN /\ p % 2 = 1
            /\ log[p].idx = (p - 1) \div 2
       ELSE IF log[p].key = ManifestKey
       THEN /\ p = Len(log)
            /\ p % 2 = 1
            /\ pc = "done"
            /\ (p - 1) \div 2 = (IF rows = <<>> THEN 0 ELSE NBatches)
       ELSE /\ p % 2 = 0
            /\ IsPost(log[p - 1])
            /\ log[p].key = ChunkKey((p - 2) \div 2)
  /\ Len(Posts) - Len(SelectSeq(log, IsChunkPut)) \in {0, 1}
  /\ pc \in {"post", "got"} <=> (log # <<>> /\ IsPost(log[Len(log)]))

\* C9 witness: three batches and the manifest, in this order
C9_Witness ==
  /\ pc = "done"
  /\ Len(log) = 7
  /\ log[5] = PostEv(2, <<rows[3]>>)
  /\ log[6] = PutEv(ChunkKey(2))
  /\ log[7] = PutEv(ManifestKey)

\* C10: a run that ends without a manifest has dispatched no batch and has
\* uploaded nothing.
C10_RunCompletion == pc = "raised" => log = <<>>

\* the header line is id <delimiter> text
IdTextHeader(text) ==
  /\ StripBom(text) # <<>>
  /\ \E d \in SeqRange(Candidates) : StripBom(text)[1] = <<"id", d, "text">>

FieldOf(row, k) == IF k <= Len(row) THEN row[k] ELSE <<>>

\* the rows with a non-empty collapsed text, in file order; the id is the
\* first field, or the position among the kept rows when positional is set
\* and the first field is empty
RECURSIVE KeptRows(_, _, _)
KeptRows(data, acc, positional) ==
  IF data = <<>> THEN acc
  ELSE LET tx == JoinSp(SplitWs(FieldOf(Head(data), 2), <<>>))
           idv == FieldOf(Head(data), 1)
           id == IF positional /\ idv = <<>> THEN Str(Len(acc) + 1) ELSE idv
       IN KeptRows(Tail(data),
                   IF tx # <<>> THEN Append(acc, [id |-> id, text |-> tx]) ELSE acc,
                   positional)

IdTextData(text) ==
  LET d == CHOOSE c \in SeqRange(Candidates) : StripBom(text)[1] = <<"id", c, "text">>
  IN DataRows(Tail(StripBom(text)), d)

\* C7 (as stated): with header id,text the parsed rows are the data rows with
\* a non-empty collapsed text, in file order, each with its id field verbatim
\* and its text collapsed.
C7_IdsVerbatim ==
  (IdTextHeader(input) /\ pc # "start") =>
    rows = KeptRows(IdTextData(input), <<>>, FALSE)

\* C7 (amended): with header id,text the parsed rows are the data rows with a
\* non-empty collapsed text, in file order, each with its text collapsed and
\* with its id field verbatim when that field is not empty, and with the
\* decimal string of its 1-based position among the parsed rows otherwise.
C7_RowParsing ==
  (IdTextHeader(input) /\ pc # "start") =>
    rows = KeptRows(IdTextData(input), <<>>, TRUE)

\* C7 witness: a row dropped for its blank text, a row with an empty id, a row
\* whose text had runs of blanks and a tab
C7_Witness ==
  /\ pc = "loop"
  /\ input = << <<"id", ",", "text">>, <<"9", ",", " ">>, <<",", "b">>,
                <<"8", ",", " ", "a", " ", TAB, "b", " ">> >>
  /\ rows = << [id |-> <<"1">>, text |-> <<"b">>],
               [id |-> <<"8">>, text |-> <<"a", " ", "b">>] >>

\* the normalized header has neither an id nor a tweet_id column
NoIdColumn(text) ==
  LET t == StripBom(text)
      fn == Fieldnames(t, Sniff(FirstLine(t)))
  IN /\ fn # <<>>
     /\ ~In("id", Headers(fn))
     /\ ~In("tweet_id", Headers(fn))

\* C8: without an id or tweet_id column the k-th parsed row has the decimal
\* string of k as its id.
C8_PositionalIds ==
  (NoIdColumn(input) /\ pc # "start") =>
    \A k \in 1..Len(rows) : rows[k].id = Str(k)

\* C8 witness: the row between the two kept rows was discarded and took no
\* number
C8_Witness ==
  /\ pc = "loop"
  /\ input = << <<"text">>, <<"7">>, <<",", "b">>, <<"7">> >>
  /\ Len(rows) = 2
  /\ rows[1].id = <<"1">>
  /\ rows[2].id = <<"2">>

\* C11: two invocations triggered by different paths upload no blob name in
\* common, and once both have returned each manifest in the container is the
\* one its own invocation wrote.
C11_NoInterference ==
  /\ \A k \in DOMAIN wrote : Cardinality(wrote[k]) <= 1
  /\ (\A r \in RunIds : runs[r].pc = "done") =>
       \A r \in RunIds :
         LET d == store[_manifest_blob_name(runs[r].name)] IN
         IsManifestDoc(d) => d.file = runs[r].name

\* C12: with a batch size <= 0 no triggering event is handled: no input is
\* read, no row is parsed, no inference call is made and nothing is uploaded.
C12_ConfigFatal ==
  CHUNK_SIZE <= 0 =>
    /\ pc = "idle"
    /\ input = <<>>
    /\ rows = <<>>
    /\ log = <<>>
    /\ store = <<>>

\* batch indices the names are compared for: those a run can reach, and
\* indices of two to five digits
KeyIndices == (0..(MaxRows + 1)) \cup {10, 999, 9999, 10000}

PutsOf(key) == {p \in 1..Len(log) : log[p] = PutEv(key)}

\* C13: within one run the blob names of different batch indices differ and
\* none is the manifest name (compared when the run starts: they depend on
\* the blob name only); every batch the run is through has exactly one
\* artifact, uploaded exactly once, either a Success or a Failure document,
\* whose chunk_index is the index in its name; no name is uploaded twice (an
\* upload never goes to a name the run has uploaded before).
C13_KeysDistinct ==
  pc # "idle" =>
    /\ pc = "start" =>
         /\ \A j, k \in KeyIndices :
              j # k => _chunk_blob_name(name, j) # _chunk_blob_name(name, k)
         /\ \A j \in KeyIndices :
              _chunk_blob_name(name, j) # _manifest_blob_name(name)
    /\ (log # <<>> /\ log[Len(log)].ev = "put") =>
         \A p \in 1..(Len(log) - 1) : log[p].key # log[Len(log)].key
    /\ \A j \in 0..(chunk_idx - 1) :
         LET key == _chunk_blob_name(name, j) IN
         /\ PutsOf(key) # {}
         /\ key \in DOMAIN store
         /\ IsFailureDoc(store[key]) # IsSuccessDoc(store[key])
         /\ store[key].chunk_index = j

\* C13 witness: a run of three batches, the first failed, the others
\* succeeded, has uploaded four blobs under four names
C13_Witness ==
  /\ pc = "done"
  /\ chunk_idx = 3
  /\ IsFailureDoc(store[_chunk_blob_name(name, 0)])
  /\ IsSuccessDoc(store[_chunk_blob_name(name, 2)])
  /\ store[_chunk_blob_name(name, 2)].chunk_index = 2
  /\ Cardinality({log[p].key : p \in {2, 4, 6, 7}}) = 4

\* an answer that is an error, but neither a network error nor one of the
\* statuses 429/500/502/503/504: another error status, or a 200 whose body
\* does not parse
NonRetryable(r) ==
  /\ r.net = "ok"
  /\ \/ r.status >= 400 /\ r.status \notin {429, 500, 502, 503, 504}
     \/ r.status = 200 /\ r.body = "not_json"

\* C14: the attempt answered by a non-retryable error is the last attempt of
\* its call (the only one when it answers the first attempt), the call ends
\* with an exception that is recorded as the Failure document of the batch,
\* and the run does not raise.
C14_NonRetryable ==
  /\ pc = "post" => \A k \in 1..attempts : ~NonRetryable(RespAt(script, k))
  /\ pc = "got" =>
       /\ \A k \in 1..(attempts - 1) : ~NonRetryable(RespAt(script, k))
       /\ NonRetryable(RespAt(script, attempts)) =>
            result.next = "raise" /\ result.exc.type \in {"HTTPError", "JSONDecodeError"}
       /\ NonRetryable(script[1]) => attempts = 1
  /\ \A j \in 0..(chunk_idx - 1) :
       NonRetryable(outcomes[j + 1]) =>
         /\ IsFailureDoc(store[ChunkKey(j)])
         /\ store[ChunkKey(j)].error.exc = [type |-> IF outcomes[j + 1].status = 200
                                                       THEN "JSONDecodeError"
                                                       ELSE "HTTPError",
                                            status |-> outcomes[j + 1].status]
  /\ (pc = "raised" /\ outcomes # <<>>) => ~NonRetryable(outcomes[Len(outcomes)])

\* C14 witness: a run whose first call was answered 404 and whose second call
\* was answered with an unparsable body has completed with two Failure
\* documents
C14_Witness ==
  /\ pc = "done"
  /\ outcomes = <<Status(404), OkNotJson>>
  /\ store[ChunkKey(0)].error.exc.type = "HTTPError"
  /\ store[ChunkKey(1)].error.exc.type = "JSONDecodeError"
  /\ store[ManifestKey].total_chunks = 2
  /\ store[ManifestKey].total_predictions = 0

\* the first of the candidates, in the given order, that occurs in the line
\* (splitting the line at it yields more than one field); comma when none does
FirstSplitting(order, line) ==
  IF SeqRange(order) \cap SeqRange(line) = {} THEN ","
  ELSE FirstOf(order, SeqRange(line))

HeaderOf(text) == FirstLine(StripBom(text))

\* C15: the delimiter handed to the reader is the first candidate
\* in the order comma, semicolon, tab, pipe that splits the first line, and
\* comma when none does.
C15_ListedOrder ==
  pc # "start" => delim = FirstSplitting(<<",", ";", TAB, "|">>, HeaderOf(input))

\* C16: whatever the scheme of the endpoint and whatever it answers, the
\* adapter makes at most 4 attempts for the call of one batch (so that a run
\* makes at most 4 attempts per batch in total).
C16_BoundedAttempts == pc \in {"post", "got"} => attempts <= 4

\* the header line written as 'ID, Text'
VariantHeader == <<"ID", ",", " ", "Text">>

\* the same file with the header line written as 'id,text'
WithPlainHeader(text) == <<<<"id", ",", "text">>>> \o Tail(text)

\* C17: a file whose header line is 'ID, Text' is parsed into the same rows,
\* with the same ids and texts, as the same file with header line 'id,text'.
C17_NormalizedHeader ==
  (input # <<>> /\ input[1] = VariantHeader /\ pc # "start") =>
    rows = Parse(WithPlainHeader(input)).rows

\* a row with a non-empty id and a non-empty text that neither starts nor
\* ends with whitespace nor holds two whitespace characters in a row
WellFormed(r) ==
  /\ r.id # <<>>
  /\ r.text # <<>>
  /\ ~IsSpace(r.text[1])
  /\ ~IsSpace(r.text[Len(r.text)])
  /\ \A k \in 1..(Len(r.text) - 1) : ~(IsSpace(r.text[k]) /\ IsSpace(r.text[k + 1]))

\* C18: in every reachable state every row of the parsed row list and every
\* item of every batch posted so far has a non-empty id and a non-empty,
\* whitespace-collapsed text.
C18_RowInvariant ==
  /\ \A k \in 1..Len(rows) : WellFormed(rows[k])
  /\ \A p \in 1..Len(log) :
       IsPost(log[p]) => \A k \in 1..Len(log[p].items) : WellFormed(log[p].items[k])

\* C18 witness: of a line with an empty id and a padded text and a line with
\* a blank text, the first was posted with the id "1" and its text collapsed
\* and the second was not posted
C18_Witness ==
  /\ pc = "done"
  /\ input = << <<"id", ",", "text">>, <<",", " ", "a", TAB, " ", "b", " ">>,
                <<"7", ",", " ">> >>
  /\ rows = << [id |-> <<"1">>, text |-> <<"a", " ", "b">>] >>
  /\ Len(Posts) = 1
  /\ Posts[1].items = rows

\* the endpoint has so far answered every call with one prediction per item
\* or with a failure
OnePerItem ==
  \A k \in 1..Len(outcomes) : outcomes[k] = OkAligned \/ IsFailure(outcomes[k])

NoneFailed == \A k \in 1..Len(outcomes) : ~IsFailure(outcomes[k])

\* the state part of C19; total_chunks = ceil(total_rows / batch size) is
\* written without a division
Accounting ==
  (OnePerItem /\ rows # <<>>) =>
    /\ pc = "done" =>
         LET m == store[ManifestKey] IN
         /\ m.total_rows = Len(rows)
         /\ m.total_chunks * CHUNK_SIZE >= m.total_rows
         /\ (m.total_chunks - 1) * CHUNK_SIZE < m.total_rows
         /\ m.total_predictions <= m.total_rows
         /\ (m.total_predictions = m.total_rows) <=> NoneFailed
    /\ \A j \in 0..(chunk_idx - 1) :
         IsSuccessDoc(store[ChunkKey(j)]) =>
           store[ChunkKey(j)].chunk_size = Len(store[ChunkKey(j)].predictions.items)
    /\ pc \in {"loop", "post", "got", "done"} =>
         /\ total_preds >= 0
         /\ total_preds <= Min(i, Len(rows))

\* C19: with an endpoint that returns one prediction per item, the manifest
\* of a completed run has total_chunks = ceil(total_rows / batch size) and
\* total_predictions <= total_rows, with equality exactly when no batch
\* failed; every Success document has chunk_size = number of its
\* predictions; during a run the running prediction total never decreases
\* and never exceeds the number of rows dispatched so far.
C19_ManifestAccounting ==
  [][Accounting' /\ (pc' # "start" => total_preds' >= total_preds)]_vars

\* the batch artifacts in the container (every blob but the manifest)
ChunkKeysIn(st) == {k \in DOMAIN st : k # ManifestKey}

\* total_chunks of the manifest, 0 for a no_header or no_valid_rows document
ChunksOf(doc) == IF IsManifestDoc(doc) THEN doc.total_chunks ELSE 0

\* C20: whenever a run for a blob name has completed, after whatever earlier
\* runs for the same name, the batch artifacts in the container under that
\* name are exactly those with the indices 0..total_chunks-1 of the manifest
\* just written, and none when the run dispatched nothing.
C20_TrailMatchesManifest ==
  pc = "done" =>
    ChunkKeysIn(store) =
      {_chunk_blob_name(name, j) : j \in 0..(ChunksOf(store[ManifestKey]) - 1)}

====
